---------------------------- MODULE Spec2Model ----------------------------
(***************************************************************************)
(* Model of the CVRP routing Lambda, kimi-cli/templates/lambda-cvrp/app.py. *)
(*                                                                         *)
(* One run of handler(event, context) is a chain of steps:                 *)
(*   auth -> validate -> presort -> matrix -> solve -> format -> done      *)
(* The OR-Tools search is external code: solve_cvrp returns either no      *)
(* solution or any assignment that satisfies the constraints the code      *)
(* registers with the routing model (capacity dimension, time dimension,   *)
(* optional visits).                                                       *)
(*                                                                         *)
(* Spec is a run of handler.  SpecMatrix and SpecSort call the helpers     *)
(* _get_distance_matrix and _sort_by_street_side on their own, on          *)
(* arguments handler would not pass (fewer than 2 locations, any walking   *)
(* speed, stops with equal sort keys).                                     *)
(*                                                                         *)
(* Numbers.  Latitudes are integers in units of 1e-4 degree and every      *)
(* location of the model lies on one meridian, where the haversine formula *)
(* reduces to R * |dphi|.  Distances returned by _haversine_m are kept in   *)
(* millimetres (fixed point), so that the int() truncations of the matrix  *)
(* builder are real truncations.  Strings that the code compares (street   *)
(* names, house numbers) are sequences of character codes.                 *)
(***************************************************************************)
EXTENDS Integers, Sequences, FiniteSets, TLC

VARIABLES
    VALHALLA_API_KEY,    \* module global: TRUE iff the key is configured
    CVRP_LAMBDA_SECRET,  \* module global: the configured secret (<<>> = unset)
    event,               \* the request: header, body fields (never assigned)
    body_addresses,      \* the caller's list body['addresses'] and its records
    pc,                  \* position of handler
    addresses,           \* handler local `addresses`
    max_houses,          \* handler local `max_houses`
    matrix_data,         \* handler local `matrix_data`
    solution,            \* handler local `solution`
    response,            \* the value handler returns
    exception,           \* str(e) of the exception caught at line 168 ("" = none)
    calls,               \* which helpers have been invoked so far
    MAX_RETRIES,         \* s3_to_supabase_loader.py module global
    loader_loaded_files, \* the table public.loader_loaded_files, by s3_key
    load                 \* the running run_with_retries / load_to_supabase call

cvrp_vars == <<VALHALLA_API_KEY, CVRP_LAMBDA_SECRET, event, body_addresses, pc,
               addresses, max_houses, matrix_data, solution, response,
               exception, calls>>

loader_vars == <<MAX_RETRIES, loader_loaded_files, load>>

vars == <<cvrp_vars, loader_vars>>

---------------------------------------------------------------------------
(* Bounds of the model *)

MaxStops == 3
MaxAgents == 2
MaxCap == 2

---------------------------------------------------------------------------
(* Program constants *)

\* R = 6371000 m and math.radians: metres per 1e-4 degree of latitude,
\* in millimetres (6371000 * pi / 180 * 1e-4 = 11.119 m)
MM_PER_UNIT == 11119
\* the `14400` of routing.AddDimension: max 4 hours per route
TIME_CEILING == 14400
\* penalty = 1000000 of the disjunctions
PENALTY == 1000000

None == [set |-> FALSE, val |-> 0]
Some(v) == [set |-> TRUE, val |-> v]

Range(s) == {s[i] : i \in 1..Len(s)}
Abs(x) == IF x < 0 THEN 0 - x ELSE x

---------------------------------------------------------------------------
(* The state of the S3 -> Supabase loader, s3_to_supabase_loader.py *)

\* the S3 keys of the model
Keys == {"york_addresses", "york_buildings"}

\* a key without a row in loader_loaded_files
NoRow == [status |-> "absent", rows_loaded |-> 0, attempts |-> 0]

NoError == [class |-> "none", retry_token |-> FALSE]

\* no call is running and none has run
IdleLoad ==
    [pc |-> "idle", s3_key |-> "", runs |-> 0, run_attempts |-> 0,
     batch |-> 0, inserted |-> 0, attempts |-> 0, conn |-> 0, failed_conn |-> 0,
     commits |-> <<>>, error |-> NoError, row_at_entry |-> NoRow,
     outcome |-> "none", result |-> 0, marked |-> "none", fully_loaded |-> {}]

\* the loader has not been started (the runs of the routing Lambda)
LoaderNotStarted ==
    /\ MAX_RETRIES = 3
    /\ loader_loaded_files = [k \in Keys |-> NoRow]
    /\ load = IdleLoad

---------------------------------------------------------------------------
(* The inputs *)

\* "Main St", "Oak Ave" as character codes
MAIN_ST == <<77, 97, 105, 110, 32, 83, 116>>
OAK_AVE == <<79, 97, 107, 32, 65, 118, 101>>

\* The stop records a request draws from.  Stops 2 and 3 lie about 6 km
\* south and 9 km north of the depot, stop 1 lies 11 m from it.
StopLat(i) ==
    CASE i = 1 -> 437001
      [] i = 2 -> 436460
      [] i = 3 -> 437810
      [] OTHER -> 437000 + 10 * i

StopStreet(i) == IF i = 1 THEN OAK_AVE ELSE MAIN_ST

\* "200", "102", "11", "12A3"
StopHouse(i) ==
    CASE i = 1 -> <<50, 48, 48>>
      [] i = 2 -> <<49, 48, 50>>
      [] i = 3 -> <<49, 49>>
      [] OTHER -> <<49, 50, 65, 51>>

Stop(i) == [id |-> i, lat |-> StopLat(i), lon |-> -794000,
            house_number |-> StopHouse(i), street_name |-> StopStreet(i)]

\* The request's address lists: the first n stops of a rotation of the pool
Rotation(r, n) == [k \in 1..n |-> Stop(((r + k - 2) % MaxStops) + 1)]
AddressLists == {Rotation(r, n) : r \in 1..MaxStops, n \in 0..MaxStops}

DEPOT == [lat |-> 437000, lon |-> -794000]
Depots == {None, Some(DEPOT)}

AgentCounts == (-1)..MaxAgents
MaxHousesOptions == {None} \cup {Some(c) : c \in 0..MaxCap}
WalkingSpeeds == {0, 5}

\* "s3cret", "wrong", " s3cret " as character codes
S3CRET == <<115, 51, 99, 114, 101, 116>>
WRONG == <<119, 114, 111, 110, 103>>
PADDED_S3CRET == <<32>> \o S3CRET \o <<32>>

\* The headers of a request that handler looks at; <<>> stands for a header
\* that is absent or empty (`or` skips both): no header, the secret, the
\* secret with blanks around it under another name, a wrong value, a wrong
\* value in the first header with the secret in a later one, blanks alone
NoHeaders == [x_cvrp_secret |-> <<>>, X_Cvrp_Secret |-> <<>>,
              x_slice_secret |-> <<>>, X_Slice_Secret |-> <<>>]
HeaderSets ==
    {NoHeaders,
     [NoHeaders EXCEPT !.x_cvrp_secret = S3CRET],
     [NoHeaders EXCEPT !.X_Slice_Secret = PADDED_S3CRET],
     [NoHeaders EXCEPT !.X_Cvrp_Secret = WRONG],
     [NoHeaders EXCEPT !.x_cvrp_secret = WRONG, !.x_slice_secret = S3CRET],
     [NoHeaders EXCEPT !.x_slice_secret = <<32, 32>>]}

\* A body that json.loads parses (line 92), with its fields
WellFormedEvents ==
    [headers : HeaderSets,
     body_parses : {TRUE},
     addresses : AddressLists,
     n_agents : AgentCounts,
     depot : Depots,
     max_houses_per_agent : MaxHousesOptions,
     walking_speed : WalkingSpeeds,
     street_side_bias : BOOLEAN,
     return_to_depot : BOOLEAN]

\* A body string that json.loads rejects: there are no fields to read
MalformedEvents ==
    [headers : HeaderSets,
     body_parses : {FALSE},
     addresses : {<<>>},
     n_agents : {1},
     depot : {None},
     max_houses_per_agent : {None},
     walking_speed : {5},
     street_side_bias : {TRUE},
     return_to_depot : {TRUE}]

Events == WellFormedEvents \cup MalformedEvents

NoMatrix == [time_matrix |-> <<>>, distance_matrix |-> <<>>, locations |-> <<>>]
NoSolution == [found |-> FALSE, routes |-> <<>>]
NoResponse == [statusCode |-> 0, error |-> "", success |-> FALSE,
               clusters |-> <<>>, has_clusters |-> FALSE]

Init ==
    /\ VALHALLA_API_KEY \in BOOLEAN
    /\ CVRP_LAMBDA_SECRET \in {<<>>, S3CRET}
    /\ event \in Events
    /\ body_addresses = event.addresses
    /\ pc = "auth"
    /\ addresses = <<>>
    /\ max_houses = 0
    /\ matrix_data = NoMatrix
    /\ solution = NoSolution
    /\ response = NoResponse
    /\ exception = ""
    /\ calls = {}
    /\ LoaderNotStarted

_response(status_code, body) ==
    [statusCode |-> status_code, error |-> body.error, success |-> body.success,
     clusters |-> body.clusters, has_clusters |-> body.has_clusters]

ErrorBody(msg) == [error |-> msg, success |-> FALSE, clusters |-> <<>>,
                   has_clusters |-> FALSE]

Return(resp) ==
    /\ response' = resp
    /\ pc' = "done"
    /\ UNCHANGED exception

\* handler goes on to its next step without returning
Continue(next_pc) ==
    /\ pc' = next_pc
    /\ UNCHANGED <<response, exception>>

---------------------------------------------------------------------------
(* handler, lines 72-88: the shared-secret check *)

\* str.strip(): blanks, tabs and line ends taken off both ends
IsSpace(c) == c \in {9, 10, 11, 12, 13, 32}

RECURSIVE LStrip(_)
LStrip(s) == IF s # <<>> /\ IsSpace(Head(s)) THEN LStrip(Tail(s)) ELSE s

RECURSIVE RStrip(_)
RStrip(s) ==
    IF s # <<>> /\ IsSpace(s[Len(s)]) THEN RStrip(SubSeq(s, 1, Len(s) - 1)) ELSE s

Strip(s) == RStrip(LStrip(s))

\* lines 75-85: the first of the four headers that is not empty, stripped
got(headers) ==
    Strip(IF headers.x_cvrp_secret # <<>> THEN headers.x_cvrp_secret
          ELSE IF headers.X_Cvrp_Secret # <<>> THEN headers.X_Cvrp_Secret
          ELSE IF headers.x_slice_secret # <<>> THEN headers.x_slice_secret
          ELSE headers.X_Slice_Secret)

\* lines 73, 86: if CVRP_LAMBDA_SECRET: ... if got != CVRP_LAMBDA_SECRET
Unauthorized_when_a_header_is_sent(secret, headers) ==
    secret # <<>> /\ got(headers) # <<>> /\ got(headers) # secret
Unauthorized(secret, headers) == secret # <<>> /\ got(headers) # secret

Auth ==
    /\ pc = "auth"
    /\ IF Unauthorized(CVRP_LAMBDA_SECRET, event.headers)
       THEN Return(_response(401, ErrorBody("unauthorized")))
       ELSE Continue("validate")
    /\ UNCHANGED loader_vars
    /\ UNCHANGED <<VALHALLA_API_KEY, CVRP_LAMBDA_SECRET, event, body_addresses,
                   addresses, max_houses, matrix_data, solution, calls>>

---------------------------------------------------------------------------
(* What the caller's data looks like after the code worked on it.  handler *)
(* binds `addresses` to the caller's list; the records in the lists of the *)
(* pipeline are the caller's own dict objects.                             *)

\* line 191: sorted(addresses, key=sort_key) builds a new list and leaves
\* its argument as it is (addresses.sort() would reorder it)
ListAfterSorted(caller_list, sorted_list) == caller_list

\* lines 384-388: the three fields are set on addresses[addr_idx].copy(),
\* not on the record itself
RecordsAfterCopy_annotated_in_place(caller_list, clusters) ==
    [k \in 1..Len(caller_list) |->
        IF \E a \in 1..Len(clusters) : \E m \in 1..Len(clusters[a].addresses) :
              clusters[a].addresses[m].id = caller_list[k].id
        THEN LET a == CHOOSE a \in 1..Len(clusters) :
                        \E m \in 1..Len(clusters[a].addresses) :
                            clusters[a].addresses[m].id = caller_list[k].id
                 m == CHOOSE m \in 1..Len(clusters[a].addresses) :
                            clusters[a].addresses[m].id = caller_list[k].id
             IN clusters[a].addresses[m]
        ELSE caller_list[k]]
RecordsAfterCopy(caller_list, clusters) == caller_list

---------------------------------------------------------------------------
(* _sort_by_street_side, lines 175-191 *)

IsDigit(c) == c >= 48 /\ c <= 57

\* int(<digit string>)
RECURSIVE ParseInt(_)
ParseInt(ds) ==
    IF ds = <<>> THEN 0
    ELSE 10 * ParseInt(SubSeq(ds, 1, Len(ds) - 1)) + (ds[Len(ds)] - 48)

\* int(''.join(filter(str.isdigit, str(house_num))) or '0') % 2
is_odd_of_all_digit_strings_only(house_num) ==
    IF house_num = SelectSeq(house_num, IsDigit) THEN ParseInt(house_num) % 2 ELSE 0
is_odd(house_num) == ParseInt(SelectSeq(house_num, IsDigit)) % 2

\* addr.get('street_name', ''), addr.get('house_number', '0')
street_of(addr) ==
    IF "street_name" \in DOMAIN addr THEN addr.street_name ELSE <<>>
house_num_of(addr) ==
    IF "house_number" \in DOMAIN addr THEN addr.house_number ELSE <<48>>

sort_key(addr) ==
    <<street_of(addr), is_odd(house_num_of(addr)), house_num_of(addr)>>

\* Python's < on str: lexicographic by code point, a proper prefix is smaller
RECURSIVE StrLess(_, _)
StrLess(s, t) ==
    IF t = <<>> THEN FALSE
    ELSE IF s = <<>> THEN TRUE
    ELSE IF Head(s) # Head(t) THEN Head(s) < Head(t)
    ELSE StrLess(Tail(s), Tail(t))

\* Python's < on the key tuples
KeyLess(k1, k2) ==
    IF k1[1] # k2[1] THEN StrLess(k1[1], k2[1])
    ELSE IF k1[2] # k2[2] THEN k1[2] < k2[2]
    ELSE StrLess(k1[3], k2[3])

\* sorted() is stable: an element goes after the elements whose key is not greater
RECURSIVE InsertByKey_before_equal(_, _)
InsertByKey_before_equal(x, s) ==
    IF s = <<>> THEN <<x>>
    ELSE IF ~KeyLess(sort_key(Head(s)), sort_key(x)) THEN <<x>> \o s
    ELSE <<Head(s)>> \o InsertByKey_before_equal(x, Tail(s))
RECURSIVE InsertByKey_drop_equal(_, _)
InsertByKey_drop_equal(x, s) ==
    IF s = <<>> THEN <<x>>
    ELSE IF KeyLess(sort_key(x), sort_key(Head(s))) THEN <<x>> \o s
    ELSE IF sort_key(x) = sort_key(Head(s)) THEN s
    ELSE <<Head(s)>> \o InsertByKey_drop_equal(x, Tail(s))
RECURSIVE InsertByKey(_, _)
InsertByKey(x, s) ==
    IF s = <<>> THEN <<x>>
    ELSE IF KeyLess(sort_key(x), sort_key(Head(s))) THEN <<x>> \o s
    ELSE <<Head(s)>> \o InsertByKey(x, Tail(s))

RECURSIVE _sort_by_street_side(_)
_sort_by_street_side(addrs) ==
    IF addrs = <<>> THEN <<>>
    ELSE InsertByKey(addrs[Len(addrs)],
                     _sort_by_street_side(SubSeq(addrs, 1, Len(addrs) - 1)))

---------------------------------------------------------------------------
(* _haversine_m, lines 194-203, and _get_distance_matrix, lines 206-262 *)

\* Great-circle distance, in millimetres, of two points of one meridian:
\* with dlam = 0, a = sin(dphi/2)^2 and c = |dphi|, so R * c = R * |dphi|.
_haversine_m(lat1, lon1, lat2, lon2) == Abs(lat2 - lat1) * MM_PER_UNIT

\* Python's int() of a quotient: truncation toward zero
TruncDiv(a, b) ==
    IF (a >= 0) = (b > 0) THEN Abs(a) \div Abs(b) ELSE 0 - (Abs(a) \div Abs(b))

\* lines 219-227: depot first if provided, then the addresses in order
Locations(addrs, depot) ==
    (IF depot.set THEN <<[lat |-> depot.val.lat, lon |-> depot.val.lon]>> ELSE <<>>)
    \o [k \in 1..Len(addrs) |-> [lat |-> addrs[k].lat, lon |-> addrs[k].lon]]

\* lines 243-249: int(dist), dist in metres
DistEntry(from_loc, to_loc) ==
    _haversine_m(from_loc.lat, from_loc.lon, to_loc.lat, to_loc.lon) \div 1000

\* lines 230, 247-248: int(dist / speed_m_s), speed_m_s = walking_speed * 1000 / 3600
\* (dist_mm / 1000) / (ws * 1000 / 3600) = dist_mm * 9 / (ws * 2500)
TimeEntry(from_loc, to_loc, walking_speed) ==
    TruncDiv(_haversine_m(from_loc.lat, from_loc.lon, to_loc.lat, to_loc.lon) * 9,
             walking_speed * 2500)

_get_distance_matrix(addrs, depot, walking_speed) ==
    LET locations == Locations(addrs, depot)
        n == Len(locations)
    IN [time_matrix |->
            [i \in 1..n |-> [j \in 1..n |->
                IF i = j THEN 0
                ELSE TimeEntry(locations[i], locations[j], walking_speed)]],
        distance_matrix |->
            [i \in 1..n |-> [j \in 1..n |->
                IF i = j THEN 0 ELSE DistEntry(locations[i], locations[j])]],
        locations |-> locations]

\* time_matrix[from_node][to_node], nodes counted from 0 as in the code
At(matrix, from_node, to_node) == matrix[from_node + 1][to_node + 1]

---------------------------------------------------------------------------
(* _solve_cvrp, lines 265-353: the routing model handed to OR-Tools.       *)
(* A route is the sequence of non-depot nodes a vehicle visits between its *)
(* start and its end; RoutingIndexManager(n_locations, n_agents, 0) makes  *)
(* node 0 the start and the end of every vehicle.                          *)

\* lines 302-305: depot has 0 demand, all others have 1
demand_callback_inverted(from_node) == IF from_node = 0 THEN 1 ELSE 0
demand_callback(from_node) == IF from_node = 0 THEN 0 ELSE 1

RECURSIVE SumDemand(_)
SumDemand(route) ==
    IF route = <<>> THEN 0 ELSE demand_callback(Head(route)) + SumDemand(Tail(route))

\* lines 309-315: the Capacity dimension, start cumul 0, no slack,
\* every cumul in 0..max_houses
CapacityOK(route, cap) == cap >= 0 /\ demand_callback(0) + SumDemand(route) <= cap

\* cumulative transit along path[1..p] (path holds node numbers)
RECURSIVE Cumul(_, _, _)
Cumul(matrix, path, p) ==
    IF p <= 1 THEN 0
    ELSE Cumul(matrix, path, p - 1) + At(matrix, path[p - 1], path[p])

\* lines 317-324: the Time dimension, start cumul 0, no slack, every cumul
\* (the one at the route's end, back at node 0, included) at most 14400
TimeOK_ten_times(route, time_matrix) ==
    LET path == <<0>> \o route \o <<0>>
    IN \A p \in 1..Len(path) :
          /\ Cumul(time_matrix, path, p) >= 0
          /\ Cumul(time_matrix, path, p) <= 10 * TIME_CEILING
TimeOK(route, time_matrix) ==
    LET path == <<0>> \o route \o <<0>>
    IN \A p \in 1..Len(path) :
          /\ Cumul(time_matrix, path, p) >= 0
          /\ Cumul(time_matrix, path, p) <= TIME_CEILING

\* the sequences without repetition over `avail`
RECURSIVE RoutesOver(_)
RoutesOver(avail) ==
    {<<>>} \cup UNION {{<<n>> \o r : r \in RoutesOver(avail \ {n})} : n \in avail}

\* lines 328-331: every node 1..n_locations-1 is optional (a disjunction of
\* its own), so an assignment gives each vehicle a route over nodes no
\* other vehicle visits and leaves the remaining nodes unvisited
RECURSIVE Assignments_mandatory(_, _, _, _)
Assignments_mandatory(k, avail, cap, time_matrix) ==
    IF k = 0 THEN (IF avail = {} THEN {<<>>} ELSE {})
    ELSE UNION {{<<r>> \o rest :
                   rest \in Assignments_mandatory(k - 1, avail \ Range(r), cap,
                                                  time_matrix)} :
                r \in {x \in RoutesOver(avail) :
                         CapacityOK(x, cap) /\ TimeOK(x, time_matrix)}}
RECURSIVE Assignments_shared_nodes(_, _, _, _)
Assignments_shared_nodes(k, avail, cap, time_matrix) ==
    IF k = 0 THEN {<<>>}
    ELSE UNION {{<<r>> \o rest :
                   rest \in Assignments_shared_nodes(k - 1, avail, cap, time_matrix)} :
                r \in {x \in RoutesOver(avail) :
                         CapacityOK(x, cap) /\ TimeOK(x, time_matrix)}}
RECURSIVE Assignments(_, _, _, _)
Assignments(k, avail, cap, time_matrix) ==
    IF k = 0 THEN {<<>>}
    ELSE UNION {{<<r>> \o rest :
                   rest \in Assignments(k - 1, avail \ Range(r), cap, time_matrix)} :
                r \in {x \in RoutesOver(avail) :
                         CapacityOK(x, cap) /\ TimeOK(x, time_matrix)}}

\* what routing.SolveWithParameters may return as a solution
Admissible_within_10_km(time_matrix, distance_matrix, n_agents, cap, return_to_depot) ==
    {routes \in Assignments(n_agents, 1..(Len(time_matrix) - 1), cap, time_matrix) :
        \A a \in 1..Len(routes) :
            Cumul(distance_matrix, <<0>> \o routes[a] \o <<0>>,
                  Len(routes[a]) + 2) <= 10000}
Admissible(time_matrix, distance_matrix, n_agents, cap, return_to_depot) ==
    Assignments(n_agents, 1..(Len(time_matrix) - 1), cap, time_matrix)

\* solution.ObjectiveValue(): arc costs (travel time) plus the penalties
RouteCost(route, time_matrix) ==
    Cumul(time_matrix, <<0>> \o route \o <<0>>, Len(route) + 2)

RECURSIVE SumCost(_, _)
SumCost(routes, time_matrix) ==
    IF routes = <<>> THEN 0
    ELSE RouteCost(Head(routes), time_matrix) + SumCost(Tail(routes), time_matrix)

Visited(routes) == UNION {Range(routes[a]) : a \in 1..Len(routes)}

ObjectiveValue(routes, time_matrix) ==
    SumCost(routes, time_matrix)
    + PENALTY * Cardinality((1..(Len(time_matrix) - 1)) \ Visited(routes))

---------------------------------------------------------------------------
(* _format_solution, lines 356-410 *)

\* lines 407: round(cumulative_time / 60), Python rounds halves to even
RoundMinutes(t) ==
    LET q == t \div 60
        r == t % 60
    IN IF r < 30 THEN q
       ELSE IF r > 30 THEN q + 1
       ELSE IF q % 2 = 0 THEN q ELSE q + 1

\* The loop of lines 378-399 over one vehicle: path[p] is the node of the
\* p-th index met (path[1] = 0 is the start); the arc into the end index is
\* not accumulated (line 395).  An index emits a record when its node is not
\* 0 and node - 1 indexes `addrs` (lines 381-383).
Emits(addrs, path, p) == path[p] # 0 /\ path[p] - 1 < Len(addrs)

EmittedPositions(addrs, path) == {p \in 1..Len(path) : Emits(addrs, path, p)}

\* the position of the k-th emitting index
NthEmitted(addrs, path, k) ==
    LET ps == EmittedPositions(addrs, path)
    IN CHOOSE p \in ps : Cardinality({q \in ps : q <= p}) = k

\* lines 386-387: the value of cumulative_time / cumulative_dist when the
\* index at path[p] is met: the arcs path[1] -> ... -> path[p]
CumulativeAt_stale(matrix, path, p) == Cumul(matrix, path, p - 1)
CumulativeAt(matrix, path, p) == Cumul(matrix, path, p)

\* lines 395-397, 405-406: the value when the loop ends; the arc from the
\* last node into the end index is skipped
LoopTotal_with_closing_arc(matrix, path) ==
    Cumul(matrix, path \o <<0>>, Len(path) + 1)
LoopTotal(matrix, path) == Cumul(matrix, path, Len(path))

AgentCluster(agent_id, route, addrs, time_matrix, distance_matrix) ==
    LET path == <<0>> \o route
        n == Cardinality(EmittedPositions(addrs, path))
        agent_addresses ==
            [k \in 1..n |->
                LET p == NthEmitted(addrs, path, k)
                    addr == addrs[path[p]]       \* addresses[node - 1], 0-based
                IN [id |-> addr.id, lat |-> addr.lat, lon |-> addr.lon,
                    house_number |-> addr.house_number,
                    street_name |-> addr.street_name,
                    sequence |-> k - 1,
                    walk_time_sec |-> CumulativeAt(time_matrix, path, p),
                    distance_m |-> CumulativeAt(distance_matrix, path, p)]]
        cumulative_time == LoopTotal(time_matrix, path)
        cumulative_dist == LoopTotal(distance_matrix, path)
    IN [agent_id |-> agent_id,
        addresses |-> agent_addresses,
        n_addresses |-> Len(agent_addresses),
        total_time_sec |-> cumulative_time,
        total_distance_m |-> cumulative_dist,
        estimated_walk_time_min |-> RoundMinutes(cumulative_time)]

\* one cluster per agent_id in range(n_agents) (lines 370, 401-410)
_format_solution_skip_empty(routes, addrs, time_matrix, distance_matrix, n_agents) ==
    SelectSeq([a \in 1..n_agents |->
                  AgentCluster(a - 1, routes[a], addrs, time_matrix, distance_matrix)],
              LAMBDA c : c.n_addresses > 0)
_format_solution(routes, addrs, time_matrix, distance_matrix, n_agents) ==
    [a \in 1..n_agents |->
        AgentCluster(a - 1, routes[a], addrs, time_matrix, distance_matrix)]

---------------------------------------------------------------------------
(* handler, lines 71-172, step by step *)

\* lines 168-172: except Exception as e -> _response(500, {'error': str(e)})
Raise_uncaught(text) ==
    /\ exception' = text
    /\ pc' = "done"
    /\ UNCHANGED response
Raise(text) ==
    /\ exception' = text
    /\ response' = _response(500, ErrorBody(text))
    /\ pc' = "done"

\* line 104: not VALHALLA_API_KEY
KeyMissing_unchecked == FALSE
KeyMissing == ~VALHALLA_API_KEY

\* lines 107-110: max_houses = options.get('max_houses_per_agent'), or
\* int(len(addresses) / n_agents) + 1 when that is None
DefaultMaxHouses_no_plus_one(n_addresses, n_agents) ==
    TruncDiv(n_addresses, n_agents)
DefaultMaxHouses_ceiling(n_addresses, n_agents) ==
    TruncDiv(n_addresses + n_agents - 1, n_agents)
DefaultMaxHouses(n_addresses, n_agents) == TruncDiv(n_addresses, n_agents) + 1

\* line 101: len(addresses) < 2
TooFewAddresses_off_by_one(addrs) == Len(addrs) < 1
TooFewAddresses(addrs) == Len(addrs) < 2

\* lines 140-141
SolverFailedResponse_empty_success ==
    _response(200, [error |-> "", success |-> TRUE, clusters |-> <<>>,
                    has_clusters |-> TRUE])
SolverFailedResponse ==
    _response(500, ErrorBody("CVRP solver failed to find solution"))

\* lines 90-117: read the body, validate, set the defaults
ValidateRequest ==
    /\ pc = "validate"
    /\ addresses' = event.addresses
    /\ IF ~event.body_parses
       THEN /\ Raise("Expecting value: line 1 column 1 (char 0)")
            /\ UNCHANGED max_houses
       ELSE IF TooFewAddresses(event.addresses)
       THEN /\ Return(_response(400, ErrorBody("Need at least 2 addresses")))
            /\ UNCHANGED max_houses
       ELSE IF KeyMissing
       THEN /\ Return(_response(500, ErrorBody("VALHALLA_API_KEY not configured")))
            /\ UNCHANGED max_houses
       ELSE IF event.max_houses_per_agent.set
       THEN /\ max_houses' = event.max_houses_per_agent.val
            /\ Continue("presort")
       ELSE IF event.n_agents = 0
       THEN /\ Raise("division by zero")
            /\ UNCHANGED max_houses
       ELSE /\ max_houses' = DefaultMaxHouses(Len(event.addresses), event.n_agents)
            /\ Continue("presort")
    /\ UNCHANGED loader_vars
    /\ UNCHANGED <<VALHALLA_API_KEY, CVRP_LAMBDA_SECRET, event, body_addresses, matrix_data,
                   solution, calls>>

\* lines 119-121
PreSort ==
    /\ pc = "presort"
    /\ IF event.street_side_bias
       THEN /\ addresses' = _sort_by_street_side(addresses)
            /\ calls' = calls \cup {"_sort_by_street_side"}
       ELSE UNCHANGED <<addresses, calls>>
    /\ Continue("matrix")
    /\ body_addresses' =
          (IF event.street_side_bias
           THEN ListAfterSorted(body_addresses, _sort_by_street_side(addresses))
           ELSE body_addresses)
    /\ UNCHANGED loader_vars
    /\ UNCHANGED <<VALHALLA_API_KEY, CVRP_LAMBDA_SECRET, event, max_houses,
                   matrix_data, solution>>

\* lines 123-128; `dist / speed_m_s` raises ZeroDivisionError when the
\* walking speed is 0.  _get_distance_matrix always returns a dict, so the
\* `if not matrix_data` branch of line 127 is never taken.
GetDistanceMatrix ==
    /\ pc = "matrix"
    /\ calls' = calls \cup {"_get_distance_matrix"}
    /\ IF event.walking_speed = 0
       THEN /\ Raise("float division by zero")
            /\ UNCHANGED matrix_data
       ELSE /\ matrix_data' = _get_distance_matrix(addresses, event.depot,
                                                   event.walking_speed)
            /\ Continue("solve")
    /\ UNCHANGED loader_vars
    /\ UNCHANGED <<VALHALLA_API_KEY, CVRP_LAMBDA_SECRET, event, body_addresses, addresses,
                   max_houses, solution>>

\* lines 130-141.  OR-Tools cannot build a model with no vehicle
\* (n_agents <= 0): the call ends in an exception.  Otherwise the search
\* returns any admissible assignment, or none within its time limit.
SolveCvrp ==
    /\ pc = "solve"
    /\ calls' = calls \cup {"_solve_cvrp"}
    /\ IF event.n_agents <= 0
       THEN /\ Raise("routing model: no vehicle")
            /\ UNCHANGED solution
       ELSE \/ /\ solution' = NoSolution
               /\ Return(SolverFailedResponse)
            \/ \E routes \in Admissible(matrix_data.time_matrix,
                                        matrix_data.distance_matrix,
                                        event.n_agents, max_houses,
                                        event.return_to_depot) :
                  /\ solution' = [found |-> TRUE, routes |-> routes]
                  /\ Continue("format")
    /\ UNCHANGED loader_vars
    /\ UNCHANGED <<VALHALLA_API_KEY, CVRP_LAMBDA_SECRET, event, body_addresses, addresses,
                   max_houses, matrix_data>>

\* lines 143-166
FormatSolution ==
    /\ pc = "format"
    /\ calls' = calls \cup {"_format_solution"}
    /\ LET clusters == _format_solution(solution.routes, addresses,
                                        matrix_data.time_matrix,
                                        matrix_data.distance_matrix,
                                        event.n_agents)
       IN Return(_response(200, [error |-> "", success |-> TRUE,
                                 clusters |-> clusters, has_clusters |-> TRUE]))
    /\ body_addresses' =
          RecordsAfterCopy(body_addresses,
                 _format_solution(solution.routes, addresses,
                                  matrix_data.time_matrix,
                                  matrix_data.distance_matrix, event.n_agents))
    /\ UNCHANGED loader_vars
    /\ UNCHANGED <<VALHALLA_API_KEY, CVRP_LAMBDA_SECRET, event, addresses,
                   max_houses, matrix_data, solution>>

Next ==
    \/ Auth
    \/ ValidateRequest
    \/ PreSort
    \/ GetDistanceMatrix
    \/ SolveCvrp
    \/ FormatSolution

Spec == Init /\ [][Next]_vars

---------------------------------------------------------------------------
(* Vocabulary of the properties *)

Done == pc = "done"
Success == pc = "done" /\ response.statusCode = 200

\* the request got past the shared-secret gate (lines 72-88)
Authorized ==
    CVRP_LAMBDA_SECRET = <<>> \/ got(event.headers) = CVRP_LAMBDA_SECRET

Clusters == response.clusters
Agents == 1..Len(Clusters)

\* sum of the matrix entries over the consecutive pairs of a node sequence
RECURSIVE EdgeSum(_, _)
EdgeSum(matrix, nodes) ==
    IF Len(nodes) < 2 THEN 0
    ELSE matrix[nodes[1] + 1][nodes[2] + 1] + EdgeSum(matrix, Tail(nodes))

\* how many emitted records carry the id of an input stop
EmittedIn(a, id) ==
    Cardinality({k \in 1..Len(Clusters[a].addresses) : Clusters[a].addresses[k].id = id})

RECURSIVE EmittedUpTo(_, _)
EmittedUpTo(a, id) == IF a = 0 THEN 0 ELSE EmittedIn(a, id) + EmittedUpTo(a - 1, id)

Emitted(id) == EmittedUpTo(Len(Clusters), id)

InputIds == {event.addresses[i].id : i \in 1..Len(event.addresses)}

---------------------------------------------------------------------------
(* C1: in every success response each agent's cluster holds at most        *)
(* max_houses_per_agent stops (the supplied value, or the default the      *)
(* handler computed), whatever admissible assignment the solver returned.  *)
C1_CapacityInvariant ==
    Success => \A a \in Agents :
                  /\ Clusters[a].n_addresses <= max_houses
                  /\ Len(Clusters[a].addresses) <= max_houses

\* a success response in which an agent is filled to its capacity while
\* the request holds more stops than that
C1_Witness ==
    /\ Success
    /\ max_houses >= 1
    /\ Len(event.addresses) > max_houses
    /\ \E a \in Agents : Clusters[a].n_addresses = max_houses

(* C2: in every success response every emitted walk_time_sec and every     *)
(* cluster's total_time_sec is at most the per-route ceiling of 14400 s.   *)
C2_TimeBudgetInvariant ==
    Success => \A a \in Agents :
                  /\ Clusters[a].total_time_sec <= 14400
                  /\ \A k \in 1..Len(Clusters[a].addresses) :
                        Clusters[a].addresses[k].walk_time_sec <= 14400

\* a success response with a route of more than an hour and a half, from a
\* request in which serving all stops on one route would break the ceiling
C2_Witness ==
    /\ Success
    /\ \E a \in Agents :
          /\ Clusters[a].total_time_sec > 6000
          /\ \E k \in 1..Len(Clusters[a].addresses) :
                Clusters[a].addresses[k].walk_time_sec > 6000
    /\ ~TimeOK([k \in 1..(Len(matrix_data.time_matrix) - 1) |-> k],
               matrix_data.time_matrix)

(* C3: in every success response every input stop appears in exactly one   *)
(* agent's cluster, or is absent from all clusters only because the total  *)
(* capacity n_agents * max_houses_per_agent is less than the number of     *)
(* stops.  The claim is stated for the assignments most favourable to it:  *)
(* those that leave out no node which some agent's route could still take  *)
(* at its end within the capacity and the time ceiling.                    *)
LeavesOutNothingServable ==
    \A n \in (1..(Len(matrix_data.time_matrix) - 1)) \ Visited(solution.routes) :
        \A a \in 1..Len(solution.routes) :
            ~(/\ CapacityOK(Append(solution.routes[a], n), max_houses)
              /\ TimeOK(Append(solution.routes[a], n), matrix_data.time_matrix))

C3_CompleteOrExplainedDrop ==
    Success /\ LeavesOutNothingServable =>
        \A id \in InputIds :
            \/ Emitted(id) = 1
            \/ /\ Emitted(id) = 0
               /\ event.n_agents * max_houses < Len(event.addresses)

(* C4: the extractor emits exactly one cluster per agent, agent_id         *)
(* 0..n_agents-1 in order; an agent whose route visits no stop appears     *)
(* with an empty address list and zero n_addresses, total_time_sec and     *)
(* total_distance_m.                                                       *)
C4_OneClusterPerAgent ==
    Success =>
        /\ Len(Clusters) = event.n_agents
        /\ \A a \in Agents :
              /\ Clusters[a].agent_id = a - 1
              /\ solution.routes[a] = <<>> =>
                    /\ Clusters[a].addresses = <<>>
                    /\ Clusters[a].n_addresses = 0
                    /\ Clusters[a].total_time_sec = 0
                    /\ Clusters[a].total_distance_m = 0

\* two agents, one of which got stops and the other none
C4_Witness ==
    /\ Success
    /\ event.n_agents = 2
    /\ solution.routes[1] = <<>>
    /\ solution.routes[2] # <<>>
    /\ Clusters[2].n_addresses > 0

(* C5: the k-th record emitted for an agent carries, as walk_time_sec      *)
(* (distance_m), the sum of the time-matrix (distance-matrix) entries over *)
(* the arcs of the agent's route from node 0 up to the k-th stop visited,  *)
(* taken from the matrices the optimizer was given; the values do not      *)
(* decrease along the sequence.                                            *)
C5_CumulativeFromDepot ==
    Success => \A a \in Agents :
        LET recs == Clusters[a].addresses
            route == solution.routes[a]
        IN /\ Len(recs) = Len(route)
           /\ \A k \in 1..Len(recs) :
                 /\ recs[k].sequence = k - 1
                 /\ recs[k].walk_time_sec =
                       EdgeSum(matrix_data.time_matrix, <<0>> \o SubSeq(route, 1, k))
                 /\ recs[k].distance_m =
                       EdgeSum(matrix_data.distance_matrix, <<0>> \o SubSeq(route, 1, k))
                 /\ k > 1 => /\ recs[k - 1].walk_time_sec <= recs[k].walk_time_sec
                             /\ recs[k - 1].distance_m <= recs[k].distance_m

\* a cluster of two stops whose second stop is farther along than the first
C5_Witness ==
    /\ Success
    /\ \E a \in Agents :
          /\ Len(Clusters[a].addresses) >= 2
          /\ Clusters[a].addresses[1].walk_time_sec > 0
          /\ Clusters[a].addresses[2].walk_time_sec
                > Clusters[a].addresses[1].walk_time_sec

(* C6, as claimed: total_time_sec of every cluster equals the sum of the   *)
(* time-matrix entries between consecutive stops of the emitted sequence   *)
(* (stops only, the depot not among them).                                 *)
C6_TotalOverStopsOnly ==
    Success => \A a \in Agents :
        Clusters[a].total_time_sec =
            EdgeSum(matrix_data.time_matrix, solution.routes[a])

(* C6, amended: total_time_sec of every cluster equals the time-matrix     *)
(* entry from node 0 to the first stop visited plus the sum of the entries *)
(* between consecutive stops visited, i.e. the walk_time_sec of the last   *)
(* emitted stop; the arc from the last stop back to node 0 is not counted. *)
C6_TotalFromDepot ==
    Success => \A a \in Agents :
        LET recs == Clusters[a].addresses
            route == solution.routes[a]
        IN /\ Clusters[a].total_time_sec =
                 EdgeSum(matrix_data.time_matrix, <<0>> \o route)
           /\ route # <<>> =>
                 /\ Clusters[a].total_time_sec =
                       At(matrix_data.time_matrix, 0, route[1])
                       + EdgeSum(matrix_data.time_matrix, route)
                 /\ Clusters[a].total_time_sec = recs[Len(recs)].walk_time_sec

\* a cluster of two stops whose first stop is not at node 0's location and
\* whose way back to node 0 takes time
C6_Witness ==
    /\ Success
    /\ \E a \in Agents :
          LET route == solution.routes[a]
          IN /\ Len(route) >= 2
             /\ At(matrix_data.time_matrix, 0, route[1]) > 0
             /\ At(matrix_data.time_matrix, route[Len(route)], 0) > 0
             /\ Clusters[a].total_time_sec > At(matrix_data.time_matrix, 0, route[1])

(* C7: with or without a depot, the location list the matrices are built   *)
(* from has length (number of stops + 1), index 0 is the depot/reference   *)
(* node, and stop i of the pre-sorted stop list is node i + 1.             *)
C7_LocationListLayout ==
    "_get_distance_matrix" \in calls /\ matrix_data # NoMatrix =>
        /\ Len(matrix_data.locations) = Len(addresses) + 1
        /\ Len(matrix_data.time_matrix) = Len(addresses) + 1
        /\ \A i \in 1..Len(addresses) :
              /\ i + 1 <= Len(matrix_data.locations)
              /\ matrix_data.locations[i + 1].lat = addresses[i].lat
              /\ matrix_data.locations[i + 1].lon = addresses[i].lon

(* C8: a request with fewer than 2 addresses (whose body parses and that   *)
(* got past the secret gate) is answered 400 "Need at least 2 addresses",  *)
(* and for no request with fewer than 2 addresses is the pre-sorter, the   *)
(* matrix builder or the optimizer ever invoked.                           *)
C8_TooFewAddresses ==
    event.body_parses /\ Len(event.addresses) < 2 =>
        /\ calls = {}
        /\ pc \in {"auth", "validate", "done"}
        /\ Done /\ Authorized =>
              /\ response.statusCode = 400
              /\ response.error = "Need at least 2 addresses"
              /\ ~response.has_clusters

\* a one-address request answered 400
C8_Witness ==
    /\ Done
    /\ Len(event.addresses) = 1
    /\ response.statusCode = 400

(* C9: a request whose n_agents is zero or negative is reported as an      *)
(* input error (status 400, as for too few stops) and never reaches the    *)
(* matrix builder or the optimizer, whether or not max_houses_per_agent is *)
(* supplied.  Stated for a configured service (the API key is set) and a   *)
(* request that got past the secret gate.                                  *)
C9_NonPositiveAgentsRejected ==
    event.n_agents <= 0 /\ Authorized /\ VALHALLA_API_KEY =>
        /\ "_get_distance_matrix" \notin calls
        /\ "_solve_cvrp" \notin calls
        /\ Done => response.statusCode = 400

(* C10: whenever the optimizer returns no solution the handler answers     *)
(* with the solver-failed error, which differs from the input-validation   *)
(* error, and without clusters; a success response with clusters comes     *)
(* only from an assignment the optimizer returned.                         *)
C10_SolverFailureIsDistinct ==
    /\ Done /\ "_solve_cvrp" \in calls /\ event.n_agents >= 1 /\ ~solution.found =>
          /\ response.statusCode = 500
          /\ response.error = "CVRP solver failed to find solution"
          /\ response.error # "Need at least 2 addresses"
          /\ ~response.success
          /\ ~response.has_clusters
    /\ Done /\ (response.has_clusters \/ response.success
                \/ response.statusCode = 200) =>
          /\ solution.found
          /\ "_solve_cvrp" \in calls
          /\ Len(response.clusters) = Len(solution.routes)
          /\ \A a \in Agents :
                Clusters[a].n_addresses = Len(solution.routes[a])

\* the solver ran on a valid request and returned nothing
C10_Witness ==
    /\ Done
    /\ "_solve_cvrp" \in calls
    /\ event.n_agents >= 1
    /\ ~solution.found
    /\ response.statusCode = 500

(* C11: handler always ends by returning exactly one structured response:  *)
(* while it runs nothing has been returned and it stands at one of its     *)
(* steps (each of which is defined for every state at it); once it         *)
(* is over the response carries one of the status codes 200, 400, 401,     *)
(* 500 with a body (clusters on 200, an error text otherwise); and every   *)
(* exception raised on the way (body parsing, defaults, matrix, optimizer) *)
(* ended in a 500 response rather than leaving handler.                    *)
C11_OneStructuredResponse ==
    /\ ~Done =>
          /\ response = NoResponse
          /\ exception = ""
          /\ pc \in {"auth", "validate", "presort", "matrix", "solve", "format"}
    /\ Done =>
          /\ response # NoResponse
          /\ response.statusCode \in {200, 400, 401, 500}
          /\ response.statusCode = 200 <=> response.has_clusters
          /\ response.statusCode # 200 => response.error # ""
    /\ exception # "" => Done /\ response.statusCode = 500

\* an exception of the matrix builder answered with a 500
C11_Witness ==
    /\ Done
    /\ exception # ""
    /\ "_get_distance_matrix" \in calls
    /\ "_solve_cvrp" \notin calls
    /\ response.statusCode = 500

(* C12: when an exception is caught during matrix construction,            *)
(* optimization or extraction, the error text of the 500 response is a     *)
(* fixed message: it is not the text of the exception.                     *)
C12_GenericErrorMessage ==
    Done /\ exception # "" /\ "_get_distance_matrix" \in calls =>
        response.error # exception

(* C13: when the API key is not configured, a request with at least 2      *)
(* addresses never reaches the pre-sorter, the matrix builder or the       *)
(* optimizer, and (once past the secret gate) it is answered 500           *)
(* "VALHALLA_API_KEY not configured".                                      *)
C13_MissingKeyStopsEarly ==
    ~VALHALLA_API_KEY /\ event.body_parses /\ Len(event.addresses) >= 2 =>
        /\ calls = {}
        /\ pc \in {"auth", "validate", "done"}
        /\ Done /\ Authorized =>
              /\ response.statusCode = 500
              /\ response.error = "VALHALLA_API_KEY not configured"
              /\ exception = ""

\* a three-address request to a service without the key, answered 500
C13_Witness ==
    /\ Done
    /\ Authorized
    /\ ~VALHALLA_API_KEY
    /\ Len(event.addresses) = 3
    /\ response.statusCode = 500
    /\ response.error = "VALHALLA_API_KEY not configured"

(* C14: too little capacity never makes the routing problem infeasible.    *)
(* For n_agents >= 1, max_houses >= 0 and n_agents x max_houses below the  *)
(* number of stops: when the optimizer is called an admissible assignment  *)
(* exists; in a solution found at most n_agents x max_houses nodes are     *)
(* visited, every other node is in no route and costs the 1,000,000        *)
(* penalty; and the success response leaves at least the excess stops out. *)
ShortCapacity ==
    /\ event.n_agents >= 1
    /\ max_houses >= 0
    /\ event.n_agents * max_houses < Len(addresses)

C14_ShortCapacityStaysFeasible ==
    /\ pc = "solve" /\ ShortCapacity =>
          Admissible(matrix_data.time_matrix, matrix_data.distance_matrix,
                     event.n_agents, max_houses, event.return_to_depot) # {}
    /\ pc \in {"format", "done"} /\ solution.found /\ ShortCapacity =>
          LET nodes == 1..(Len(matrix_data.time_matrix) - 1)
              served == Visited(solution.routes)
          IN /\ served \subseteq nodes
             /\ Cardinality(served) <= event.n_agents * max_houses
             /\ \A n \in nodes \ served : \A a \in 1..Len(solution.routes) :
                    n \notin Range(solution.routes[a])
             /\ ObjectiveValue(solution.routes, matrix_data.time_matrix)
                   >= PENALTY * (Cardinality(nodes) - event.n_agents * max_houses)
    /\ Success /\ ShortCapacity =>
          Cardinality({id \in InputIds : Emitted(id) = 0})
              >= Len(addresses) - event.n_agents * max_houses

\* one agent of capacity 1 and a depot, three stops: one served, two dropped
C14_Witness ==
    /\ Success
    /\ event.n_agents = 1
    /\ max_houses = 1
    /\ event.depot.set
    /\ Len(addresses) = 3
    /\ Cardinality(Visited(solution.routes)) = 1
    /\ Cardinality({id \in InputIds : Emitted(id) = 0}) = 2

(* C15: a route is closed at node 0 only when return_to_depot is set.       *)
(* With return_to_depot false the leg from the last stop back to node 0    *)
(* is no part of the route: a route whose way out fits the capacity and    *)
(* the 14400 s ceiling is admissible, and its arc cost is the time of the  *)
(* way out alone.                                                          *)
OneWayTime(route, time_matrix) == Cumul(time_matrix, <<0>> \o route, Len(route) + 1)

C15_ClosingLegOnlyWhenReturning ==
    pc = "solve" /\ event.n_agents >= 1 /\ ~event.return_to_depot =>
        \A x \in RoutesOver(1..(Len(matrix_data.time_matrix) - 1)) :
            CapacityOK(x, max_houses)
            /\ OneWayTime(x, matrix_data.time_matrix) <= TIME_CEILING
            => /\ TimeOK(x, matrix_data.time_matrix)
               /\ RouteCost(x, matrix_data.time_matrix)
                     = OneWayTime(x, matrix_data.time_matrix)

(* C16: once the defaults are set, the capacity in use is exactly the      *)
(* value supplied as max_houses_per_agent when there is one; when it is    *)
(* absent or null and n_agents >= 1 it is floor(N / n_agents) + 1 for N    *)
(* addresses, which is at least ceil(N / n_agents), so that the agents     *)
(* together can hold all N.                                                *)
PastDefaults ==
    \/ pc \in {"presort", "matrix", "solve", "format"}
    \/ Done /\ "_get_distance_matrix" \in calls

C16_CapacityInUse ==
    PastDefaults =>
        LET N == Len(event.addresses)
            K == event.n_agents
        IN /\ event.max_houses_per_agent.set =>
                 max_houses = event.max_houses_per_agent.val
           /\ ~event.max_houses_per_agent.set /\ K >= 1 =>
                 /\ max_houses = (N \div K) + 1
                 /\ max_houses >= (N + K - 1) \div K
                 /\ max_houses * K >= N

\* three addresses for two agents, no capacity supplied: capacity 2
C16_Witness ==
    /\ pc = "solve"
    /\ ~event.max_houses_per_agent.set
    /\ event.n_agents = 2
    /\ Len(event.addresses) = 3
    /\ max_houses = 2

---------------------------------------------------------------------------
(* _get_distance_matrix called on its own, lines 206-262: any address list *)
(* (empty and one-element lists included), with or without a depot, and    *)
(* any walking speed.  The function tests none of its arguments.           *)

BuilderSpeeds == {-5, 0, 3, 5}

BuilderCalls ==
    [addresses : AddressLists, depot : Depots, walking_speed : BuilderSpeeds]

InitMatrix ==
    /\ VALHALLA_API_KEY = TRUE
    /\ CVRP_LAMBDA_SECRET = <<>>
    /\ event \in BuilderCalls
    /\ body_addresses = event.addresses
    /\ pc = "call"
    /\ addresses = event.addresses
    /\ max_houses = 0
    /\ matrix_data = NoMatrix
    /\ solution = NoSolution
    /\ response = NoResponse
    /\ exception = ""
    /\ calls = {}
    /\ LoaderNotStarted

\* `dist / speed_m_s` (line 247) is evaluated only for i # j, that is when
\* there are at least two locations; it raises when speed_m_s is 0
CallGetDistanceMatrix ==
    /\ pc = "call"
    /\ calls' = calls \cup {"_get_distance_matrix"}
    /\ IF event.walking_speed = 0 /\ Len(Locations(addresses, event.depot)) >= 2
       THEN /\ exception' = "float division by zero"
            /\ pc' = "raised"
            /\ UNCHANGED matrix_data
       ELSE /\ matrix_data' = _get_distance_matrix(addresses, event.depot,
                                                   event.walking_speed)
            /\ pc' = "returned"
            /\ UNCHANGED exception
    /\ UNCHANGED loader_vars
    /\ UNCHANGED <<VALHALLA_API_KEY, CVRP_LAMBDA_SECRET, event, body_addresses, addresses,
                   max_houses, solution, response>>

NextMatrix == CallGetDistanceMatrix

SpecMatrix == InitMatrix /\ [][NextMatrix]_vars

FloorDiv(a, b) == IF b > 0 THEN a \div b ELSE (0 - a) \div (0 - b)

(* C17: for every location list with at least 2 stops and every walking    *)
(* speed the builder accepts (it returns matrices), the time and distance  *)
(* matrices are square of the size of the location list, symmetric, zero   *)
(* on the diagonal, and all their entries are non-negative integers.       *)
C17_MatrixShape ==
    pc = "returned" /\ Len(addresses) >= 2 =>
        LET n == Len(matrix_data.locations)
            IsSound(matrix) ==
                /\ Len(matrix) = n
                /\ \A i \in 1..n :
                      /\ Len(matrix[i]) = n
                      /\ matrix[i][i] = 0
                      /\ \A j \in 1..n :
                            /\ matrix[i][j] = matrix[j][i]
                            /\ matrix[i][j] \in Nat
        IN /\ n = Len(addresses) + (IF event.depot.set THEN 1 ELSE 0)
           /\ IsSound(matrix_data.time_matrix)
           /\ IsSound(matrix_data.distance_matrix)

(* C18: in the matrices returned, for i # j the time entry is the floor of *)
(* distance / speed_m_s, with speed_m_s = walking_speed * 1000 / 3600 and  *)
(* the distance not yet truncated, and the distance entry is the           *)
(* great-circle distance truncated to whole metres, never rounded up.      *)
C18_EntriesAreFloors ==
    pc = "returned" =>
        LET loc == matrix_data.locations
        IN \A i, j \in 1..Len(loc) : i # j =>
              LET mm == _haversine_m(loc[i].lat, loc[i].lon, loc[j].lat, loc[j].lon)
                  d == matrix_data.distance_matrix[i][j]
              IN /\ matrix_data.time_matrix[i][j]
                      = FloorDiv(mm * 9, event.walking_speed * 2500)
                 /\ d * 1000 <= mm
                 /\ mm < (d + 1) * 1000

(* C19: given fewer than 2 locations the builder fails: it never returns   *)
(* (0 x 0 or 1 x 1) matrices as a normal result.                           *)
C19_TooFewLocationsFails ==
    Len(Locations(addresses, event.depot)) < 2 => pc # "returned"

---------------------------------------------------------------------------
(* _sort_by_street_side called on its own, lines 175-191: lists of         *)
(* distinct stops drawn from a pool in which two stops share street and    *)
(* house number, and house numbers such as "9" and "11" are ordered as     *)
(* strings, not as numbers; stop 9 has no house_number field.  The result  *)
(* is sorted once more, as on a second request with the same list.         *)

PoolSize == 9

\* "200", "102", "11", "12A3", "102", "A", "9", "12-34"
PoolHouse(i) ==
    CASE i = 1 -> <<50, 48, 48>>
      [] i = 2 -> <<49, 48, 50>>
      [] i = 3 -> <<49, 49>>
      [] i = 4 -> <<49, 50, 65, 51>>
      [] i = 5 -> <<49, 48, 50>>
      [] i = 6 -> <<65>>
      [] i = 8 -> <<49, 50, 45, 51, 52>>
      [] OTHER -> <<57>>

PoolStop(i) ==
    IF i = 9
    THEN [id |-> i, lat |-> 437000 + 10 * i, lon |-> -794000,
          street_name |-> StopStreet(i)]
    ELSE [id |-> i, lat |-> 437000 + 10 * i, lon |-> -794000,
          house_number |-> PoolHouse(i), street_name |-> StopStreet(i)]

\* the lists of at most `n` distinct stops of the pool
RECURSIVE PoolLists(_)
PoolLists(n) ==
    IF n = 0 THEN {<<>>}
    ELSE LET shorter == PoolLists(n - 1)
         IN shorter \cup
            UNION {{Append(s, PoolStop(i)) :
                      i \in {x \in 1..PoolSize :
                                \A m \in 1..Len(s) : s[m].id # x}} :
                   s \in {t \in shorter : Len(t) = n - 1}}

InitSort ==
    /\ VALHALLA_API_KEY = TRUE
    /\ CVRP_LAMBDA_SECRET = <<>>
    /\ event \in [addresses : PoolLists(MaxStops)]
    /\ body_addresses = event.addresses
    /\ pc = "call"
    /\ addresses = event.addresses
    /\ max_houses = 0
    /\ matrix_data = NoMatrix
    /\ solution = NoSolution
    /\ response = NoResponse
    /\ exception = ""
    /\ calls = {}
    /\ LoaderNotStarted

\* addresses = _sort_by_street_side(addresses)
CallSortByStreetSide ==
    /\ pc = "call"
    /\ addresses' = _sort_by_street_side(addresses)
    /\ calls' = calls \cup {"_sort_by_street_side"}
    /\ pc' = "returned"
    /\ body_addresses' =
          ListAfterSorted(body_addresses, _sort_by_street_side(addresses))
    /\ UNCHANGED loader_vars
    /\ UNCHANGED <<VALHALLA_API_KEY, CVRP_LAMBDA_SECRET, event, max_houses,
                   matrix_data, solution, response, exception>>

\* _sort_by_street_side applied to its own result
SortAgain ==
    /\ pc = "returned"
    /\ addresses' = _sort_by_street_side(addresses)
    /\ pc' = "resorted"
    /\ body_addresses' =
          ListAfterSorted(body_addresses, _sort_by_street_side(addresses))
    /\ UNCHANGED loader_vars
    /\ UNCHANGED <<VALHALLA_API_KEY, CVRP_LAMBDA_SECRET, event, max_houses,
                   matrix_data, solution, response, exception, calls>>

NextSort == CallSortByStreetSide \/ SortAgain

SpecSort == InitSort /\ [][NextSort]_vars

\* parity of the number written by the digits of a house number: that of
\* its last digit, 0 when it has no digit
Parity(house_number) ==
    LET ds == SelectSeq(house_number, IsDigit)
    IN IF ds = <<>> THEN 0 ELSE (ds[Len(ds)] - 48) % 2

\* the raw house-number string of a stop, "0" for a stop that has none
HouseNumber(a) == IF "house_number" \in DOMAIN a THEN a.house_number ELSE <<48>>

\* stop a comes strictly before stop b in the order (street name, parity,
\* raw house-number string)
Precedes(a, b) ==
    \/ StrLess(a.street_name, b.street_name)
    \/ /\ a.street_name = b.street_name
       /\ \/ Parity(HouseNumber(a)) < Parity(HouseNumber(b))
          \/ /\ Parity(HouseNumber(a)) = Parity(HouseNumber(b))
             /\ StrLess(HouseNumber(a), HouseNumber(b))

\* the position of a stop in a list of distinct stops
PositionIn(list, stop) == CHOOSE m \in 1..Len(list) : list[m] = stop

(* C20: the pre-sorter returns a permutation of its input that is          *)
(* non-decreasing in (street name, house-number parity, raw house-number   *)
(* string compared as a string), and stops with equal keys keep the order  *)
(* they had in the input; the result is thereby determined by the input.   *)
C20_SortedStablePermutation ==
    pc = "returned" =>
        LET in == event.addresses
            out == addresses
        IN /\ Len(out) = Len(in)
           /\ \A k \in 1..Len(in) :
                 Cardinality({m \in 1..Len(out) : out[m] = in[k]}) = 1
           /\ \A m \in 1..(Len(out) - 1) : ~Precedes(out[m + 1], out[m])
           /\ \A i, j \in 1..Len(in) :
                 i < j /\ ~Precedes(in[i], in[j]) /\ ~Precedes(in[j], in[i])
                 => PositionIn(out, in[i]) < PositionIn(out, in[j])

\* the two "102 Main St" stops around "9 Main St": "9" goes last, the two
\* others keep their order
C20_Witness ==
    /\ pc = "returned"
    /\ event.addresses = <<PoolStop(5), PoolStop(7), PoolStop(2)>>
    /\ addresses = <<PoolStop(5), PoolStop(2), PoolStop(7)>>

(* C21: the pre-sort is idempotent and loses nothing: sorting its own      *)
(* result gives that result again, and each result has the length of the   *)
(* input and holds every stop exactly as often as the input does.          *)
Occurrences(list, stop) == Cardinality({m \in 1..Len(list) : list[m] = stop})

C21_IdempotentAndComplete ==
    /\ pc \in {"returned", "resorted"} =>
          /\ Len(addresses) = Len(event.addresses)
          /\ \A i \in 1..PoolSize :
                Occurrences(addresses, PoolStop(i))
                    = Occurrences(event.addresses, PoolStop(i))
    /\ pc = "resorted" => addresses = _sort_by_street_side(event.addresses)

\* an unsorted list with two equal-key stops, sorted twice
C21_Witness ==
    /\ pc = "resorted"
    /\ event.addresses = <<PoolStop(7), PoolStop(5), PoolStop(2)>>
    /\ addresses = <<PoolStop(5), PoolStop(2), PoolStop(7)>>

(* C22: the parity in the sort key of a stop is that of the integer        *)
(* written by the digits of its house number ('12A3' is odd as 123,        *)
(* '12-34' is even as 1234), and 0 when the house number has no digit or   *)
(* the stop has no house number.                                           *)
C22_ParityOfDigits ==
    pc = "returned" =>
        /\ \A m \in 1..Len(addresses) :
              sort_key(addresses[m])[2] = Parity(HouseNumber(addresses[m]))
        /\ \A m \in 1..Len(addresses) :
              LET id == addresses[m].id
                  parity == sort_key(addresses[m])[2]
              IN /\ id = 4 => parity = 1
                 /\ id = 8 => parity = 0
                 /\ id = 6 => parity = 0
                 /\ id = 9 => parity = 0

\* '12A3', '12-34' and a stop without house number sorted: the even ones
\* first ("0" before "12-34"), the odd '12A3' last
C22_Witness ==
    /\ pc = "returned"
    /\ event.addresses = <<PoolStop(4), PoolStop(8), PoolStop(9)>>
    /\ addresses = <<PoolStop(9), PoolStop(8), PoolStop(4)>>

(* C23: the optimizer's constraints and objective depend on travel time    *)
(* only.  With the same time matrix, agents and capacity, any other        *)
(* distance matrix (all zero, or ten times as long) gives the optimizer    *)
(* the same set of admissible assignments; and the cost of the assignment  *)
(* it returns is the travel time of its routes plus 1,000,000 per node     *)
(* left out, whatever the distances are.                                   *)
OtherDistances(distance_matrix) ==
    LET n == Len(distance_matrix)
    IN {[i \in 1..n |-> [j \in 1..n |-> 0]],
        [i \in 1..n |-> [j \in 1..n |-> 10 * distance_matrix[i][j]]]}

C23_TimeOnlyObjective ==
    /\ pc = "solve" /\ event.n_agents >= 1 =>
          \A other \in OtherDistances(matrix_data.distance_matrix) :
              Admissible(matrix_data.time_matrix, other, event.n_agents,
                         max_houses, event.return_to_depot)
              = Admissible(matrix_data.time_matrix, matrix_data.distance_matrix,
                           event.n_agents, max_houses, event.return_to_depot)
    /\ pc = "format" /\ solution.found =>
          ObjectiveValue(solution.routes, matrix_data.time_matrix)
          = SumCost(solution.routes, matrix_data.time_matrix)
            + PENALTY * (Len(matrix_data.time_matrix) - 1
                         - Cardinality(Visited(solution.routes)))

\* the optimizer returned the round trip to the far stop (18 km, 12968 s)
\* for a request with a depot
C23_Witness ==
    /\ pc = "format"
    /\ solution.found
    /\ event.depot.set
    /\ \E a \in 1..Len(solution.routes) :
          /\ Len(solution.routes[a]) = 1
          /\ RouteCost(solution.routes[a], matrix_data.time_matrix) = 12968
          /\ RouteCost(solution.routes[a], matrix_data.distance_matrix) = 18012

(* C24: the pipeline never changes the caller's stop data.  The caller's   *)
(* list keeps its records, their fields and their order all along, and no  *)
(* record of it ever carries sequence, walk_time_sec or distance_m; the    *)
(* list the pipeline works on after the pre-sort holds the caller's stops  *)
(* with every field unchanged, in the caller's order when                  *)
(* street_side_bias is false.                                              *)
PastPreSort ==
    \/ pc \in {"matrix", "solve", "format"}
    \/ Done /\ "_get_distance_matrix" \in calls

C24_CallerDataUntouched ==
    /\ body_addresses = event.addresses
    /\ \A k \in 1..Len(body_addresses) :
          DOMAIN body_addresses[k]
              = {"id", "lat", "lon", "house_number", "street_name"}
    /\ PastPreSort =>
          /\ Len(addresses) = Len(event.addresses)
          /\ \A k \in 1..Len(event.addresses) :
                \E m \in 1..Len(addresses) : addresses[m] = event.addresses[k]
          /\ ~event.street_side_bias => addresses = event.addresses

\* a success response whose records are annotated, for a list that the
\* pre-sort reordered
C24_Witness ==
    /\ Success
    /\ event.street_side_bias
    /\ addresses # event.addresses
    /\ \E a \in Agents : \E m \in 1..Len(Clusters[a].addresses) :
          /\ "walk_time_sec" \in DOMAIN Clusters[a].addresses[m]
          /\ \E k \in 1..Len(body_addresses) :
                body_addresses[k].id = Clusters[a].addresses[m].id

(* C25: when CVRP_LAMBDA_SECRET is configured, a request gets past the     *)
(* auth step only if one of the four accepted headers holds, once          *)
(* stripped, the configured secret; every request that presents it in no   *)
(* header is answered 401 "unauthorized" with nothing parsed, validated,   *)
(* built or solved; and when the secret is unset no request is answered    *)
(* 401.                                                                    *)
PresentsSecret ==
    \E value \in {event.headers.x_cvrp_secret, event.headers.X_Cvrp_Secret,
                   event.headers.x_slice_secret, event.headers.X_Slice_Secret} :
        Strip(value) = CVRP_LAMBDA_SECRET

C25_SecretGate ==
    /\ CVRP_LAMBDA_SECRET # <<>> /\ pc # "auth" /\ ~PresentsSecret =>
          /\ Done
          /\ response.statusCode = 401
          /\ response.error = "unauthorized"
          /\ calls = {}
          /\ addresses = <<>>
          /\ exception = ""
    /\ CVRP_LAMBDA_SECRET # <<>>
       /\ (pc \notin {"auth", "done"} \/ (Done /\ response.statusCode # 401)) =>
          PresentsSecret
    /\ Done /\ response.statusCode = 401 =>
          /\ CVRP_LAMBDA_SECRET # <<>>
          /\ calls = {}
          /\ addresses = <<>>
          /\ exception = ""

\* the secret sent with blanks around it in X-Slice-Secret lets a request
\* through to a success response
C25_Witness ==
    /\ Success
    /\ CVRP_LAMBDA_SECRET = S3CRET
    /\ event.headers.X_Slice_Secret = PADDED_S3CRET

(* C26: in every success response, with or without a depot, the record    *)
(* emitted for a visited node is the stop whose coordinates stand at that  *)
(* node's index of the location list (so its walk_time_sec and distance_m  *)
(* are those of its own location), and every input stop stands at an       *)
(* index other than 0, where the optimizer can visit it.                   *)
C26_EmittedRecordIsNodeStop ==
    Success =>
        /\ \A a \in Agents :
              LET path == <<0>> \o solution.routes[a]
              IN \A k \in 1..Len(Clusters[a].addresses) :
                    LET node == path[NthEmitted(addresses, path, k)]
                        record == Clusters[a].addresses[k]
                    IN /\ record.lat = matrix_data.locations[node + 1].lat
                       /\ record.lon = matrix_data.locations[node + 1].lon
        /\ \A i \in 1..Len(addresses) :
              \E node \in 1..(Len(matrix_data.locations) - 1) :
                  /\ matrix_data.locations[node + 1].lat = addresses[i].lat
                  /\ matrix_data.locations[node + 1].lon = addresses[i].lon

(* C27: in every success response no input stop is emitted more than      *)
(* once, within a cluster or across clusters; the n_addresses of the       *)
(* clusters add up to at most the number of input addresses; and there are *)
(* exactly n_agents clusters.                                              *)
RECURSIVE SumAddresses(_)
SumAddresses(a) ==
    IF a = 0 THEN 0 ELSE Clusters[a].n_addresses + SumAddresses(a - 1)

C27_NoStopTwice ==
    Success =>
        /\ \A id \in InputIds : Emitted(id) <= 1
        /\ \A a \in Agents : \A k \in 1..Len(Clusters[a].addresses) :
              Clusters[a].addresses[k].id \in InputIds
        /\ SumAddresses(Len(Clusters)) <= Len(event.addresses)
        /\ Len(Clusters) = event.n_agents

\* three stops and a depot, two agents: a cluster of two stops and a
\* cluster of one
C27_Witness ==
    /\ Success
    /\ event.n_agents = 2
    /\ event.depot.set
    /\ Len(event.addresses) = 3
    /\ Clusters[1].n_addresses = 2
    /\ Clusters[2].n_addresses = 1
    /\ \A id \in InputIds : Emitted(id) = 1

(* C28: with the default capacity the agents together hold more than the   *)
(* request: for N >= 2 addresses and n_agents >= 1,                        *)
(* n_agents x (floor(N / n_agents) + 1) > N.  So under default options no  *)
(* stop is dropped for lack of capacity: every set of nodes that some      *)
(* assignment serves when capacity is no limit (N per agent) is served by  *)
(* an assignment that is admissible with the default capacity.             *)
DefaultCapacity == ~event.max_houses_per_agent.set /\ event.n_agents >= 1

ServedSets(cap) ==
    {Visited(routes) :
        routes \in Admissible(matrix_data.time_matrix, matrix_data.distance_matrix,
                              event.n_agents, cap, event.return_to_depot)}

C28_DefaultCapacityCovers ==
    /\ PastDefaults /\ DefaultCapacity =>
          /\ Len(event.addresses) >= 2
          /\ max_houses = (Len(event.addresses) \div event.n_agents) + 1
          /\ event.n_agents * max_houses > Len(event.addresses)
    /\ pc = "solve" /\ DefaultCapacity =>
          ServedSets(max_houses) = ServedSets(Len(addresses))

\* two agents share three stops under the default capacity of 2: nothing is
\* left out although one agent alone could not hold them
C28_Witness ==
    /\ Success
    /\ DefaultCapacity
    /\ event.n_agents = 2
    /\ Len(event.addresses) = 3
    /\ max_houses = 2
    /\ Cardinality(Visited(solution.routes)) = 3

---------------------------------------------------------------------------
(* s3_to_supabase_loader.py: run_with_retries (lines 405-425),             *)
(* load_to_supabase (355-402), execute_batch_with_retry (309-352),         *)
(* is_file_completed (182-192), mark_file_status (195-235).                *)
(*                                                                         *)
(* Calls run one at a time.  Every statement that talks to the database    *)
(* either succeeds or raises; pg_conn raises psycopg2.OperationalError     *)
(* when it gives up.  A commit that succeeds is seen to succeed.  The      *)
(* record `load` holds the locals of the running call and what the         *)
(* properties need of its history: the commits per batch of the running   *)
(* load_to_supabase call, the connection of the last failed attempt, the   *)
(* row of the key when the call began, how the call ended.                 *)

MaxBatches == 2
MaxRuns == 2
MaxRetries == 2

CHUNK_SIZE == 10000

\* the number of batches of the file of a key, the last one a partial batch
NumBatches(s3_key) == IF s3_key = "york_addresses" THEN MaxBatches ELSE 1
BatchLen(s3_key, b) == IF b < NumBatches(s3_key) THEN CHUNK_SIZE ELSE 1

\* exceptions: connection lost; a data error whose message holds the word
\* "connection"; a missing relation; a line that is not JSON
OPERATIONAL_ERROR == [class |-> "OperationalError", retry_token |-> FALSE]
DATA_ERROR == [class |-> "DataError", retry_token |-> TRUE]
PROGRAMMING_ERROR == [class |-> "ProgrammingError", retry_token |-> FALSE]
JSON_ERROR == [class |-> "JSONDecodeError", retry_token |-> FALSE]

InsertErrors == {OPERATIONAL_ERROR, DATA_ERROR, PROGRAMMING_ERROR}

\* lines 142-156
is_retryable_error(err) ==
    \/ err.class \in {"OperationalError", "InterfaceError"}
    \/ err.retry_token

\* lines 338, 413: attempts >= MAX_RETRIES
RetriesExhausted_one_late(attempts) == attempts > MAX_RETRIES
RetriesExhausted(attempts) == attempts >= MAX_RETRIES

\* lines 195-235: INSERT ... ON CONFLICT (s3_key) DO UPDATE
mark_file_status(table, s3_key, status, rows_loaded) ==
    [table EXCEPT ![s3_key] =
        IF @.status = "absent"
        THEN [status |-> status, rows_loaded |-> rows_loaded,
              attempts |-> IF status = "in_progress" THEN 1 ELSE 0]
        ELSE [status |-> status, rows_loaded |-> rows_loaded,
              attempts |-> IF status = "in_progress" THEN @.attempts + 1
                           ELSE @.attempts]]

\* lines 182-192
is_file_completed(table, s3_key) == table[s3_key].status = "completed"

\* an exception leaves load_to_supabase: run_with_retries catches it
Raised(l, e) == [l EXCEPT !.pc = "run_except", !.error = e, !.outcome = "raised"]

\* load_to_supabase returns, and run_with_retries with it (line 410)
Returned(l, value) ==
    [l EXCEPT !.pc = "idle", !.outcome = "returned", !.result = value]

\* lines 408-410: attempts += 1; load_to_supabase(...) begins
NewCall(l, row) ==
    [l EXCEPT !.pc = "is_file_completed", !.run_attempts = @ + 1, !.batch = 1,
              !.inserted = 0, !.attempts = 0, !.conn = 0, !.failed_conn = 0,
              !.commits = [b \in 1..NumBatches(l.s3_key) |-> 0],
              !.error = NoError, !.row_at_entry = row, !.outcome = "running",
              !.result = 0, !.marked = "none"]

InitLoader ==
    /\ VALHALLA_API_KEY = TRUE
    /\ CVRP_LAMBDA_SECRET = <<>>
    /\ event = [addresses |-> <<>>]
    /\ body_addresses = <<>>
    /\ pc = "done"
    /\ addresses = <<>>
    /\ max_houses = 0
    /\ matrix_data = NoMatrix
    /\ solution = NoSolution
    /\ response = NoResponse
    /\ exception = ""
    /\ calls = {}
    /\ MAX_RETRIES \in 0..MaxRetries
    /\ loader_loaded_files = [k \in Keys |-> NoRow]
    /\ load = IdleLoad

\* main, line 487: run_with_retries(local_file, table, key, source_id);
\* lines 406-410, and line 425 when the loop is never entered
RunWithRetries ==
    /\ load.pc = "idle"
    /\ load.runs < MaxRuns
    /\ \E s3_key \in Keys :
          LET run == [load EXCEPT !.s3_key = s3_key, !.runs = @ + 1,
                                  !.run_attempts = 0]
          IN load' = IF 0 < MAX_RETRIES
                     THEN NewCall(run, loader_loaded_files[s3_key])
                     ELSE [run EXCEPT !.outcome = "not called", !.result = 0]
    /\ UNCHANGED <<MAX_RETRIES, loader_loaded_files, cvrp_vars>>

\* lines 359-361
IsFileCompleted ==
    /\ load.pc = "is_file_completed"
    /\ \/ load' = Raised(load, OPERATIONAL_ERROR)
       \/ load' = IF is_file_completed(loader_loaded_files, load.s3_key)
                  THEN Returned(load, 0)
                  ELSE [load EXCEPT !.pc = "mark_in_progress"]
    /\ UNCHANGED <<MAX_RETRIES, loader_loaded_files, cvrp_vars>>

\* line 363
MarkInProgress ==
    /\ load.pc = "mark_in_progress"
    /\ \/ /\ load' = Raised(load, OPERATIONAL_ERROR)
          /\ UNCHANGED loader_loaded_files
       \/ /\ loader_loaded_files' =
                mark_file_status(loader_loaded_files, load.s3_key, "in_progress", 0)
          /\ load' = [load EXCEPT !.pc = "connect"]
    /\ UNCHANGED <<MAX_RETRIES, cvrp_vars>>

\* lines 365-372: the lines are counted and conn = pg_conn() is opened
\* before the try block begins
Connect ==
    /\ load.pc = "connect"
    /\ \/ load' = Raised(load, OPERATIONAL_ERROR)
       \/ load' = [load EXCEPT !.pc = "read_batch", !.conn = @ + 1]
    /\ UNCHANGED <<MAX_RETRIES, loader_loaded_files, cvrp_vars>>

\* lines 375-382, 388: the next batch is read (json.loads may raise), or the
\* file is at its end
ReadBatch ==
    /\ load.pc = "read_batch"
    /\ IF load.batch > NumBatches(load.s3_key)
       THEN load' = [load EXCEPT !.pc = "mark_completed"]
       ELSE \/ load' = [load EXCEPT !.pc = "insert", !.attempts = 0]
            \/ load' = [load EXCEPT !.pc = "mark_failed", !.error = JSON_ERROR]
    /\ UNCHANGED <<MAX_RETRIES, loader_loaded_files, cvrp_vars>>

\* lines 323-338: one pass of the loop of execute_batch_with_retry
InsertAttempt ==
    /\ load.pc = "insert"
    /\ LET attempts == load.attempts + 1
           b == load.batch
       IN \/ LET commits == [load.commits EXCEPT ![b] = @ + 1]
             IN load' = [load EXCEPT
                   !.attempts = attempts,
                   !.commits = commits,
                   !.inserted = @ + BatchLen(load.s3_key, b),
                   !.batch = b + 1,
                   !.fully_loaded =
                       IF \A c \in 1..Len(commits) : commits[c] >= 1
                       THEN @ \cup {load.s3_key} ELSE @,
                   !.pc = "read_batch"]
          \/ \E e \in InsertErrors :
                load' = [load EXCEPT
                   !.attempts = attempts,
                   !.error = e,
                   !.failed_conn = load.conn,
                   !.pc = IF ~is_retryable_error(e) \/ RetriesExhausted(attempts)
                          THEN "mark_failed" ELSE "reconnect"]
    /\ UNCHANGED <<MAX_RETRIES, loader_loaded_files, cvrp_vars>>

\* lines 339-352: close, sleep, conn = pg_conn()
Reconnect ==
    /\ load.pc = "reconnect"
    /\ \/ load' = [load EXCEPT !.pc = "insert", !.conn = @ + 1]
       \/ load' = [load EXCEPT !.pc = "mark_failed", !.error = OPERATIONAL_ERROR]
    /\ UNCHANGED <<MAX_RETRIES, loader_loaded_files, cvrp_vars>>

\* lines 392-394
MarkCompleted ==
    /\ load.pc = "mark_completed"
    /\ \/ /\ loader_loaded_files' =
                mark_file_status(loader_loaded_files, load.s3_key, "completed",
                                 load.inserted)
          /\ load' = Returned([load EXCEPT !.marked = "completed"], load.inserted)
       \/ /\ load' = [load EXCEPT !.pc = "mark_failed", !.error = OPERATIONAL_ERROR]
          /\ UNCHANGED loader_loaded_files
    /\ UNCHANGED <<MAX_RETRIES, cvrp_vars>>

\* lines 395-397: except Exception as e: mark_file_status(..., "failed"); raise
MarkFailed ==
    /\ load.pc = "mark_failed"
    /\ \/ /\ loader_loaded_files' =
                mark_file_status(loader_loaded_files, load.s3_key, "failed", 0)
          /\ load' = Raised([load EXCEPT !.marked = "failed"], load.error)
       \/ /\ load' = Raised(load, OPERATIONAL_ERROR)
          /\ UNCHANGED loader_loaded_files
    /\ UNCHANGED <<MAX_RETRIES, cvrp_vars>>

\* lines 411-424: except Exception as e in run_with_retries
RunExcept ==
    /\ load.pc = "run_except"
    /\ load' = IF ~is_retryable_error(load.error) \/ RetriesExhausted(load.run_attempts)
               THEN [load EXCEPT !.pc = "idle"]
               ELSE NewCall(load, loader_loaded_files[load.s3_key])
    /\ UNCHANGED <<MAX_RETRIES, loader_loaded_files, cvrp_vars>>

NextLoader ==
    \/ RunWithRetries
    \/ IsFileCompleted
    \/ MarkInProgress
    \/ Connect
    \/ ReadBatch
    \/ InsertAttempt
    \/ Reconnect
    \/ MarkCompleted
    \/ MarkFailed
    \/ RunExcept

SpecLoader == InitLoader /\ [][NextLoader]_vars

---------------------------------------------------------------------------
(* File-level resume and bounded retry of the loader                       *)

\* the running or last load_to_supabase call has ended by raising
LoadRaised == load.outcome = "raised" /\ load.pc \in {"run_except", "idle"}

\* the last load_to_supabase call has returned
LoadReturned == load.outcome = "returned" /\ load.pc = "idle"

\* C29: a key is 'completed' only if a call committed every batch of its
\* file; a load_to_supabase call that fails leaves the key 'failed'; a call
\* on a key already 'completed' inserts nothing, returns 0 and leaves the
\* key's row as it was.
C29_FileLevelResume ==
    /\ \A k \in Keys :
          loader_loaded_files[k].status = "completed" => k \in load.fully_loaded
    /\ LoadRaised => loader_loaded_files[load.s3_key].status = "failed"
    /\ LoadReturned /\ load.row_at_entry.status = "completed" =>
          /\ load.result = 0
          /\ \A b \in 1..Len(load.commits) : load.commits[b] = 0
          /\ loader_loaded_files[load.s3_key] = load.row_at_entry

\* execute_batch_with_retry is running (lines 323-352)
InExecuteBatch == load.pc \in {"insert", "reconnect"}

\* what C30 says of every state: an attempt is made again only after a retryable failure that
\* was not the MAX_RETRIES-th, on a connection other than the one that
\* failed, and never after a commit, so no batch is committed twice in one
\* call; neither count of attempts exceeds MAX_RETRIES.
BoundedRetry ==
    /\ load.attempts <= MAX_RETRIES
    /\ load.run_attempts <= MAX_RETRIES
    /\ \A b \in 1..Len(load.commits) : load.commits[b] <= 1
    /\ InExecuteBatch /\ load.attempts >= 1 =>
          /\ is_retryable_error(load.error)
          /\ load.attempts < MAX_RETRIES
          /\ load.commits[load.batch] = 0
    /\ load.pc = "insert" /\ load.attempts >= 1 => load.conn # load.failed_conn
    /\ load.pc = "reconnect" => load.conn = load.failed_conn

\* The statements of the loader run one after another and each returns or
\* raises (pg_conn gives up after DB_CONNECT_RETRIES tries, the sleeps are
\* finite), so a step that can be taken is taken.
SpecLoaderFair == SpecLoader /\ WF_vars(NextLoader)

\* C30: execute_batch_with_retry always ends after at most MAX_RETRIES
\* insert attempts: it returns after the first committed attempt, re-raises
\* at once on a non-retryable error and on the MAX_RETRIES-th retryable
\* failure, retries every other failure on a fresh connection, commits a
\* batch at most once per call; run_with_retries calls load_to_supabase at
\* most MAX_RETRIES times.
C30_BoundedRetryTerminates ==
    /\ []BoundedRetry
    /\ InExecuteBatch ~> ~InExecuteBatch

\* the MAX_RETRIES-th retryable failure of a batch, after retries on fresh
\* connections, in the last load_to_supabase call that run_with_retries makes
C30_Witness ==
    /\ MAX_RETRIES = MaxRetries
    /\ load.pc = "mark_failed"
    /\ load.attempts = MAX_RETRIES
    /\ load.run_attempts = MAX_RETRIES
    /\ is_retryable_error(load.error)
    /\ load.failed_conn = load.conn
    /\ load.conn = MAX_RETRIES
    /\ load.batch = MaxBatches
    /\ load.commits[1] = 1

=============================================================================
